---- MODULE Spec2Model ----
(***************************************************************************)
(* A model of scripts/build.py of FiraMath: the decomposition of smart     *)
(* components (Font._decompose_smart_comp) and the construction and        *)
(* encoding of the OpenType MATH table (Font.add_math_table, MathTable).   *)
(***************************************************************************)
EXTENDS Integers, Sequences, FiniteSets, TLC

VARIABLES
    glyphs,     \* self.font.glyphs: glyph name -> GSGlyph, mutated in place
    source,     \* the glyphs as loaded, before _decompose_smart_comp ran
    pass,       \* which of the two loops of _decompose_smart_comp is running
    gi,         \* position in the filtered glyph list of the running loop
    li,         \* position in glyph.layers of the running loop
    status,     \* "running", "done", "redone" (a second call returned), or "error" (an exception left the run)
    mfont,      \* the GSFont add_math_table reads: masters, glyphs, instances
    toml,       \* toml.load(toml_path)
    unsavable,  \* the styles whose font file TTFont cannot open or save
    master_data,    \* what _parse_master_math_table returned
    math_tables,    \* self.math_tables: style -> MathTable
    outputs,    \* the MATH tables saved so far: style -> encoded table
    mpc,        \* where add_math_table is: "start", "build", "write", "done", "error"
    si,         \* position in self.interpolations of the running loop
    model,      \* a MathTable
    encoded     \* what MathTable.encode returned for model

decompVars == <<glyphs, source, pass, gi, li, status>>
mathVars == <<mfont, toml, unsavable, master_data, math_tables, outputs, mpc, si>>
encodeVars == <<model, encoded>>

vars == <<decompVars, mathVars, encodeVars>>

(***************************************************************************)
(* Bounds of the glyph sources                                             *)
(***************************************************************************)
\* the largest number of component references one layer holds
MaxComps == 2
\* the largest number of nodes of one path
MaxNodes == 2

\* self.font.glyphs, in font order
GlyphOrder == <<"g1", "g2">>
GlyphNames == {GlyphOrder[i] : i \in 1..Len(GlyphOrder)}
\* the one master of the decomposition model
MasterId == "m1"

Min(a, b) == IF a < b THEN a ELSE b

\* Python's round() of the rational n / d (d > 0): to nearest, ties to even
Round(n, d) ==
    LET q == n \div d
        r == n % d
    IN  IF 2 * r < d THEN q
        ELSE IF 2 * r > d THEN q + 1
        ELSE IF q % 2 = 0 THEN q ELSE q + 1

(***************************************************************************)
(* The glyph sources the model starts from                                 *)
(***************************************************************************)
\* a path of n nodes of layer number l of the glyph at position g
MkPath(g, l, p, n) == [i \in 1..n |-> <<20 * g + 4 * i, 10 * l + 3 * p>>]

\* the paths of a layer whose paths have the node counts shape[1], shape[2], ...
MkPaths(g, l, shape) == [p \in 1..Len(shape) |-> MkPath(g, l, p, shape[p])]

\* the node counts of (part 1, part 2) of a parametric glyph: the same, a path
\* more on one side, a node fewer on one side
SmartShapes ==
    { <<<<MaxNodes>>, <<MaxNodes>>>>,
      <<<<MaxNodes, MaxNodes>>, <<MaxNodes>>>>,
      <<<<MaxNodes>>, <<MaxNodes, MaxNodes>>>>,
      <<<<MaxNodes>>, <<MaxNodes - 1>>>> }

PlainShapes == { <<MaxNodes>>, <<MaxNodes, MaxNodes - 1>> }

\* comp.smartComponentValues: none, one axis value, two axis values
ValueChoices == { <<>>, <<<<"a", 1>>>>, <<<<"a", 1>>, <<"b", 1>>>> }

\* the component references a layer of glyph g may hold
CompChoices(g) ==
    { [component |-> r, smartComponentValues |-> v, transform |-> <<1, 2>>] :
        r \in GlyphNames \ {g}, v \in ValueChoices }

RECURSIVE SeqsUpTo(_, _)
SeqsUpTo(S, n) ==
    IF n = 0 THEN {<<>>}
    ELSE LET shorter == SeqsUpTo(S, n - 1)
         IN  shorter \cup {Append(s, x) : s \in {t \in shorter : Len(t) = n - 1}, x \in S}

Position(g) == CHOOSE i \in 1..Len(GlyphOrder) : GlyphOrder[i] = g

\* a parametric glyph: one axis "a" from 0 to 2, a master layer tagged part 1 and
\* a second layer of the same master tagged part 2
SmartGlyph(g, shapes, comps) ==
    [ name |-> g,
      smartComponentAxes |-> <<[name |-> "a", bottomValue |-> 0, topValue |-> 2]>>,
      layers |-> <<
        [ layerId |-> MasterId, associatedMasterId |-> MasterId,
          partSelection |-> <<<<"a", 1>>>>,
          paths |-> MkPaths(Position(g), 1, shapes[1]), components |-> comps ],
        [ layerId |-> "part2", associatedMasterId |-> MasterId,
          partSelection |-> <<<<"a", 2>>>>,
          paths |-> MkPaths(Position(g), 2, shapes[2]), components |-> comps ] >> ]

\* an ordinary glyph: no axis, one master layer
PlainGlyph(g, shape, comps) ==
    [ name |-> g,
      smartComponentAxes |-> <<>>,
      layers |-> <<
        [ layerId |-> MasterId, associatedMasterId |-> MasterId,
          partSelection |-> <<>>,
          paths |-> MkPaths(Position(g), 1, shape), components |-> comps ] >> ]

GlyphChoices(g) ==
    { SmartGlyph(g, s, c) : s \in SmartShapes, c \in SeqsUpTo(CompChoices(g), MaxComps) }
    \cup
    { PlainGlyph(g, s, c) : s \in PlainShapes, c \in SeqsUpTo(CompChoices(g), MaxComps) }

(***************************************************************************)
(* Font: the resolution of one component reference                         *)
(***************************************************************************)
Raised == [ok |-> FALSE, paths |-> <<>>]
Returned(ps) == [ok |-> TRUE, paths |-> ps]

_is_smart_glyph(glyph) == glyph.smartComponentAxes # <<>>

_is_smart_component(font, comp) == _is_smart_glyph(font[comp.component])

\* a dict kept as a sequence of <<key, value>> pairs in insertion order
HasKey(d, k) == \E i \in 1..Len(d) : d[i][1] = k
Lookup(d, k) == d[CHOOSE i \in 1..Len(d) : d[i][1] = k][2]

\* (x - bottom) / (top - bottom) as the fraction <<numerator, denominator>>
_rescale(x, bottom, top) == <<x - bottom, top - bottom>>

\* round(p0 * (1 - value) + p1 * value), per coordinate, value = t[1] / t[2]
_interpolate_node(node_0, node_1, t) ==
    << Round(node_0[1] * (t[2] - t[1]) + node_1[1] * t[1], t[2]),
       Round(node_0[2] * (t[2] - t[1]) + node_1[2] * t[1], t[2]) >>

\* zip(path_0.nodes, path_1.nodes): as many nodes as the shorter path has
_interpolate_path(path_0, path_1, t) ==
    [i \in 1..Min(Len(path_0), Len(path_1)) |-> _interpolate_node(path_0[i], path_1[i], t)]

\* path.applyTransform(comp.transform), the transform being a translation
applyTransform(path, transform) ==
    [i \in 1..Len(path) |-> <<path[i][1] + transform[1], path[i][2] + transform[2]>>]

\* _is_part_n(layer, n) of a reference with axis key `key` ("" when the reference
\* gives no value: the first key of layer.partSelection is used); it raises when
\* the layer of the master has no such key
PartKey(layer, key) == IF key = "" /\ layer.partSelection # <<>> THEN layer.partSelection[1][1] ELSE key
PartRaises(layer, key, master_id) ==
    layer.associatedMasterId = master_id /\ ~HasKey(layer.partSelection, PartKey(layer, key))
_is_part_n(layer, key, master_id, n) ==
    /\ layer.associatedMasterId = master_id
    /\ HasKey(layer.partSelection, PartKey(layer, key))
    /\ Lookup(layer.partSelection, PartKey(layer, key)) = n

\* next(layer for layer in ref_glyph.layers if _is_part_n(layer, n)): 0 when the
\* search raises (no layer matches, or _is_part_n raises before one does)
PartLayer(layers, key, master_id, n) ==
    LET hits == {i \in 1..Len(layers) :
                    PartRaises(layers[i], key, master_id) \/ _is_part_n(layers[i], key, master_id, n)}
        first == CHOOSE i \in hits : \A j \in hits : i <= j
    IN  IF hits = {} THEN 0
        ELSE IF PartRaises(layers[first], key, master_id) THEN 0 ELSE first

\* the interpolation value of a reference: <<ok, key, fraction>>
InterpolationValue(ref_glyph, values) ==
    IF Len(values) = 0 THEN [ok |-> TRUE, key |-> "", t |-> <<0, 1>>]
    ELSE IF Len(values) = 1 THEN
        LET key == values[1][1]
            axes == ref_glyph.smartComponentAxes
            found == {i \in 1..Len(axes) : axes[i].name = key}
            axis == axes[CHOOSE i \in found : \A j \in found : i <= j]
        IN  IF found = {} \/ axis.topValue = axis.bottomValue
            THEN [ok |-> FALSE, key |-> key, t |-> <<0, 1>>]
            ELSE [ok |-> TRUE, key |-> key,
                  t |-> _rescale(values[1][2], axis.bottomValue, axis.topValue)]
    ELSE [ok |-> FALSE, key |-> "", t |-> <<0, 1>>]

\* a fraction with a positive denominator
Positive(t) == IF t[2] < 0 THEN <<0 - t[1], 0 - t[2]>> ELSE t

\* zip(layer_0.paths, layer_1.paths): as many paths as the layer with fewer has
ZipPaths(paths_0, paths_1, t, transform) ==
    [p \in 1..Min(Len(paths_0), Len(paths_1)) |->
        applyTransform(_interpolate_path(paths_0[p], paths_1[p], Positive(t)), transform)]

_smart_component_to_paths(font, comp, master_id) ==
    LET ref_glyph == font[comp.component]
        iv == InterpolationValue(ref_glyph, comp.smartComponentValues)
        l0 == PartLayer(ref_glyph.layers, iv.key, master_id, 1)
        l1 == PartLayer(ref_glyph.layers, iv.key, master_id, 2)
    IN  IF ~iv.ok \/ l0 = 0 \/ l1 = 0 THEN Raised
        ELSE Returned(ZipPaths(ref_glyph.layers[l0].paths, ref_glyph.layers[l1].paths,
                               iv.t, comp.transform))

_component_to_paths(font, comp, master_id) ==
    LET ref_glyph == font[comp.component]
        found == {i \in 1..Len(ref_glyph.layers) : ref_glyph.layers[i].layerId = master_id}
        first == CHOOSE i \in found : \A j \in found : i <= j
        paths == ref_glyph.layers[first].paths
    IN  IF found = {} THEN Raised
        ELSE Returned([p \in 1..Len(paths) |-> applyTransform(paths[p], comp.transform)])

(***************************************************************************)
(* Font._decompose_smart_comp                                              *)
(***************************************************************************)
\* the glyphs the first loop visits, without the filter
AllGlyphsFirst(font, p) ==
    IF p = 1 THEN GlyphOrder
    ELSE SelectSeq(GlyphOrder, LAMBDA g : ~_is_smart_glyph(font[g]))

\* filter(Font._is_smart_glyph, self.font.glyphs), then the glyphs that are not
PassGlyphs(font, p) ==
    IF p = 1 THEN SelectSeq(GlyphOrder, LAMBDA g : _is_smart_glyph(font[g]))
    ELSE SelectSeq(GlyphOrder, LAMBDA g : ~_is_smart_glyph(font[g]))

\* the second loop taking a reference for smart by the glyph it refers to
ExpandsSmartRef(font, comp, p) == p = 1 \/ _is_smart_component(font, comp)

\* whether the loop of pass p expands (and then removes) comp: the first loop
\* every component, the second the ones with smartComponentValues
Expands(font, comp, p) == p = 1 \/ comp.smartComponentValues # <<>>

\* the paths of comp as pass p computes them
CompPaths(font, comp, master_id, p) ==
    IF p = 1 /\ ~_is_smart_component(font, comp)
    THEN _component_to_paths(font, comp, master_id)
    ELSE _smart_component_to_paths(font, comp, master_id)

\* `for comp in layer.components`, from component i on: each expanded component's
\* paths are appended to layer.paths; an exception leaves the loop with the
\* paths appended so far
RECURSIVE ExpandFrom(_, _, _, _, _, _)
ExpandFrom(font, g, l, comps, i, p) ==
    IF i > Len(comps) THEN [ok |-> TRUE, font |-> font]
    ELSE IF ~Expands(font, comps[i], p) THEN ExpandFrom(font, g, l, comps, i + 1, p)
    ELSE LET r == CompPaths(font, comps[i], font[g].layers[l].associatedMasterId, p)
         IN  IF ~r.ok THEN [ok |-> FALSE, font |-> font]
             ELSE ExpandFrom([font EXCEPT ![g].layers[l].paths = @ \o r.paths],
                             g, l, comps, i + 1, p)

\* the body of `for layer in glyph.layers` leaving layer._shapes as it is
DecomposeLayerKeeping(font, g, l, p) ==
    ExpandFrom(font, g, l, font[g].layers[l].components, 1, p)

\* the body of `for layer in glyph.layers`: expand, then
\* layer._shapes = [s for s in layer._shapes if s not in to_be_removed]
DecomposeLayer(font, g, l, p) ==
    LET comps == font[g].layers[l].components
        r == ExpandFrom(font, g, l, comps, 1, p)
    IN  IF ~r.ok THEN r
        ELSE [ok |-> TRUE,
              font |-> [r.font EXCEPT ![g].layers[l].components =
                            SelectSeq(comps, LAMBDA c : ~Expands(font, c, p))]]

InitDecomp ==
    /\ glyphs \in [GlyphNames -> UNION {GlyphChoices(g) : g \in GlyphNames}]
    /\ \A g \in GlyphNames : glyphs[g].name = g
    /\ source = glyphs
    /\ pass = 1
    /\ gi = 1
    /\ li = 1
    /\ status = "running"
    /\ mfont = <<>> /\ toml = <<>> /\ unsavable = {} /\ master_data = <<>>
    /\ math_tables = <<>> /\ outputs = <<>> /\ mpc = "off" /\ si = 0
    /\ model = <<>> /\ encoded = <<>>

\* one turn of `for layer in glyph.layers` of the loop that is running
LayerStep ==
    /\ status = "running"
    /\ gi <= Len(PassGlyphs(glyphs, pass))
    /\ LET g == PassGlyphs(glyphs, pass)[gi]
           r == DecomposeLayer(glyphs, g, li, pass)
       IN  /\ glyphs' = r.font
           /\ IF ~r.ok
              THEN status' = "error" /\ UNCHANGED <<gi, li>>
              ELSE /\ status' = status
                   /\ IF li < Len(glyphs[g].layers)
                      THEN li' = li + 1 /\ gi' = gi
                      ELSE li' = 1 /\ gi' = gi + 1
    /\ UNCHANGED <<source, pass, mathVars, encodeVars>>

\* the first loop is exhausted: the second starts
EndPass1 ==
    /\ status = "running"
    /\ pass = 1
    /\ gi > Len(PassGlyphs(glyphs, pass))
    /\ pass' = 2
    /\ gi' = 1
    /\ li' = 1
    /\ UNCHANGED <<glyphs, source, status, mathVars, encodeVars>>

\* the second loop is exhausted: _decompose_smart_comp returns
EndPass2 ==
    /\ status = "running"
    /\ pass = 2
    /\ gi > Len(PassGlyphs(glyphs, pass))
    /\ status' = "done"
    /\ UNCHANGED <<glyphs, source, pass, gi, li, mathVars, encodeVars>>

\* the loop of pass p from its i-th glyph, layer l, to its end; an exception
\* leaves the loops. The layer's result r is bound as the one element of a set,
\* which evaluates it once.
RECURSIVE DecomposeFrom(_, _, _, _)
DecomposeFrom(font, p, i, l) ==
    LET passGlyphs == PassGlyphs(font, p)
    IN  IF i > Len(passGlyphs) THEN [ok |-> TRUE, font |-> font]
        ELSE CHOOSE result \in
                { IF ~r.ok THEN r
                  ELSE IF l < Len(font[passGlyphs[i]].layers)
                       THEN DecomposeFrom(r.font, p, i, l + 1)
                       ELSE DecomposeFrom(r.font, p, i + 1, 1) :
                    r \in {DecomposeLayer(font, passGlyphs[i], l, p)} } : TRUE

\* a whole call of Font._decompose_smart_comp on font: the first loop, then the
\* second
_decompose_smart_comp(font) ==
    CHOOSE result \in
        { IF ~first.ok THEN first ELSE DecomposeFrom(first.font, 2, 1, 1) :
            first \in {DecomposeFrom(font, 1, 1, 1)} } : TRUE

\* _decompose_smart_comp is called once more on the font a completed call left
DecomposeAgain ==
    /\ status = "done"
    /\ LET r == _decompose_smart_comp(glyphs)
       IN  /\ glyphs' = r.font
           /\ status' = IF r.ok THEN "redone" ELSE "error"
    /\ UNCHANGED <<source, pass, gi, li, mathVars, encodeVars>>

NextDecomp == LayerStep \/ EndPass1 \/ EndPass2 \/ DecomposeAgain

SpecDecomp == InitDecomp /\ [][NextDecomp]_vars

(***************************************************************************)
(* Claims about Font._decompose_smart_comp                                 *)
(***************************************************************************)
LayerIndices(font, g) == 1..Len(font[g].layers)

IsPrefix(s, t) == Len(s) <= Len(t) /\ \A i \in 1..Len(s) : s[i] = t[i]

C7_ParametricGlyphsFirst ==
    /\ pass = 1 =>
        \A g \in GlyphNames :
            source[g].smartComponentAxes = <<>> => glyphs[g] = source[g]
    /\ pass = 2 =>
        \A g \in GlyphNames :
            source[g].smartComponentAxes # <<>> =>
                \A l \in LayerIndices(glyphs, g) : glyphs[g].layers[l].components = <<>>

\* the second loop has expanded a reference of a non-parametric glyph to a
\* parametric glyph that itself had references
C7_Witness ==
    /\ pass = 2
    /\ \E g \in GlyphNames, h \in GlyphNames :
        /\ source[g].smartComponentAxes = <<>>
        /\ source[h].smartComponentAxes # <<>>
        /\ source[h].layers[1].components # <<>>
        /\ \E i \in 1..Len(source[g].layers[1].components) :
            /\ source[g].layers[1].components[i].component = h
            /\ source[g].layers[1].components[i].smartComponentValues # <<>>
        /\ Len(glyphs[g].layers[1].paths) > Len(source[g].layers[1].paths)

\* the two layers differ in the number of paths, or two paths at the same position
\* differ in the number of nodes
Mismatched(paths_0, paths_1) ==
    \/ Len(paths_0) # Len(paths_1)
    \/ \E p \in 1..Min(Len(paths_0), Len(paths_1)) : Len(paths_0[p]) # Len(paths_1[p])

\* the layer the running loop is at holds a reference that is resolved by
\* _smart_component_to_paths between two mismatched layers
MismatchAtCursor ==
    /\ status = "running"
    /\ gi <= Len(PassGlyphs(glyphs, pass))
    /\ LET layer == glyphs[PassGlyphs(glyphs, pass)[gi]].layers[li]
       IN  \E i \in 1..Len(layer.components) :
            LET comp == layer.components[i]
                ref_glyph == glyphs[comp.component]
                iv == InterpolationValue(ref_glyph, comp.smartComponentValues)
                l0 == PartLayer(ref_glyph.layers, iv.key, layer.associatedMasterId, 1)
                l1 == PartLayer(ref_glyph.layers, iv.key, layer.associatedMasterId, 2)
            IN  /\ Expands(glyphs, comp, pass)
                /\ pass = 1 => _is_smart_component(glyphs, comp)
                /\ iv.ok /\ l0 # 0 /\ l1 # 0
                /\ Mismatched(ref_glyph.layers[l0].paths, ref_glyph.layers[l1].paths)

\* C10: a step that resolves a parametric reference between part-1 and part-2
\* layers that differ in the number of paths, or in the number of nodes of a pair
\* of paths, ends the run with an error.
C10_MismatchRaises == [][MismatchAtCursor => status' = "error"]_vars

\* C11: a second call of _decompose_smart_comp on the font a first completed call
\* left returns without an error and changes no layer of any glyph, neither its
\* paths nor its component references.
C11_SecondRunChangesNothing ==
    [][status = "done" /\ status' # "done" =>
            glyphs' = glyphs /\ status' = "redone"]_vars

\* the second call has returned on a font whose first call appended paths to a
\* layer and left a component reference in it
C11_Witness ==
    /\ status = "redone"
    /\ \E g \in GlyphNames :
        /\ glyphs[g].layers[1].components # <<>>
        /\ Len(glyphs[g].layers[1].paths) > Len(source[g].layers[1].paths)
    /\ \E g \in GlyphNames :
        /\ source[g].smartComponentAxes # <<>>
        /\ source[g].layers[1].components # <<>>

(***************************************************************************)
(* Dicts: sequences of <<key, value>> pairs in insertion order             *)
(***************************************************************************)
DictKeys(d) == [i \in 1..Len(d) |-> d[i][1]]
DictValues(d) == [i \in 1..Len(d) |-> d[i][2]]
KeySet(d) == {d[i][1] : i \in 1..Len(d)}
\* d[k] = v: an existing key keeps its place, a new key goes last
DictPut(d, k, v) ==
    IF HasKey(d, k)
    THEN [i \in 1..Len(d) |-> IF d[i][1] = k THEN <<k, v>> ELSE d[i]]
    ELSE Append(d, <<k, v>>)
SeqToSet(q) == {q[i] : i \in 1..Len(q)}

(***************************************************************************)
(* Bounds and data of the font and the configuration of the MATH model     *)
(***************************************************************************)
\* the number of masters of the font
NumMasters == 2

\* self.font.masters in file order, not sorted by weight
AllMasters ==
    << [id |-> "bold", weightValue |-> 700],
       [id |-> "light", weightValue |-> 300],
       [id |-> "heavy", weightValue |-> 900],
       [id |-> "thin", weightValue |-> 100] >>
FontMasters == SubSeq(AllMasters, 1, NumMasters)

\* sorted(seq, key): the stable sort of q, keys[i] being the key of q[i]
SortedBy(q, keys) ==
    LET ranks == [i \in 1..Len(q) |->
                    Cardinality({j \in 1..Len(q) :
                        keys[j] < keys[i] \/ (keys[j] = keys[i] /\ j < i)}) + 1]
    IN  [r \in 1..Len(q) |-> q[CHOOSE i \in 1..Len(q) : ranks[i] = r]]

\* the master's weightValue, the sort key of the masters
WeightKeys(masters) == [i \in 1..Len(masters) |-> masters[i].weightValue]

\* the glyphs of the font in glyph order
MathGlyphOrder == <<"a", "a.s1", "b", "b.s1", "p", "q">>
GlyphId(name) == CHOOSE i \in 1..Len(MathGlyphOrder) : MathGlyphOrder[i] = name

\* layer.bounds.size of the master layer with index idx of the k-th glyph, as
\* fractions <<numerator, denominator>>
LayerSize(k, idx) ==
    [ width |-> <<2 * (100 + 10 * k + idx) + (k % 2), 2>>,
      height |-> <<150 + 7 * k + 3 * idx, 1>> ]

\* the value glyph number k records under a user data key on master idx
UserValue(k, key, idx) ==
    CASE key = "italicCorrection" -> 10 * k + 5 * idx
      [] key = "topAccent" -> 250 + k + 11 * idx
      [] key = "startConnector" -> 30 + k + 3 * idx
      [] key = "endConnector" -> 40 + k + idx

\* the user data keys a glyph records, when nothing is missing
RecordedKeys(name) ==
    CASE name \in {"a", "b"} -> {"italicCorrection", "topAccent"}
      [] name \in {"p", "q"} -> {"startConnector", "endConnector"}
      [] OTHER -> {}

\* a glyph with one master layer per master (in file order) and, for "a", a
\* further layer that is no master layer; missing[key] are the master indices
\* whose layer does not record key
MathGlyph(name, sorted, missing) ==
    LET k == GlyphId(name)
        idx(m) == (CHOOSE i \in 1..Len(sorted) : sorted[i].id = m.id) - 1
        keys(i) == {key \in RecordedKeys(name) : i \notin missing[key]}
        data(i) == SelectSeq(<<"italicCorrection", "topAccent", "startConnector", "endConnector">>,
                             LAMBDA key : key \in keys(i))
        layer(m) ==
            [ layerId |-> m.id, associatedMasterId |-> m.id,
              userData |-> << <<<<"note", 1>>>>,
                             [n \in 1..Len(data(idx(m))) |->
                                <<data(idx(m))[n], UserValue(k, data(idx(m))[n], idx(m))>>] >>,
              size |-> LayerSize(k, idx(m)) ]
        extra == [ layerId |-> "brace", associatedMasterId |-> FontMasters[1].id,
                   userData |-> << <<<<"italicCorrection", 999>>, <<"topAccent", 999>>>> >>,
                   size |-> LayerSize(k, 0) ]
    IN  [ name |-> name, export |-> TRUE,
          layers |-> IF name = "a"
                     THEN <<extra>> \o [i \in 1..Len(FontMasters) |-> layer(FontMasters[i])]
                     ELSE [i \in 1..Len(FontMasters) |-> layer(FontMasters[i])] ]

\* Font.__init__: masters sorted by weightValue, and id -> index (from 0)
SortedMasters(masters) == SortedBy(masters, WeightKeys(masters))
_masters_num(masters) == Len(SortedMasters(masters))
_master_id_indices(masters) ==
    LET sorted == SortedMasters(masters)
    IN  [id \in {sorted[i].id : i \in 1..Len(sorted)} |->
            (CHOOSE i \in 1..Len(sorted) : sorted[i].id = id) - 1]

\* Font.__init__: self.interpolations, style -> [(master index, weight)], of the
\* active instances
Interpolations(masters, instances) ==
    LET active == SelectSeq(instances, LAMBDA i : i.active)
        indices == _master_id_indices(masters)
    IN  [n \in 1..Len(active) |->
            << active[n].name,
               [e \in 1..Len(active[n].instanceInterpolations) |->
                    << indices[active[n].instanceInterpolations[e][1]],
                       active[n].instanceInterpolations[e][2] >>] >>]

NoneMissing == [key \in {"italicCorrection", "topAccent", "startConnector", "endConnector"} |-> {}]

\* the font: glyph "a" misses its italic correction on the masters missIC, the
\* part glyph "p" its start connector on the masters missSC
MathFont(missIC, missSC, instances) ==
    LET sorted == SortedMasters(FontMasters)
    IN  [ familyName |-> "Fira Math",
          masters |-> FontMasters,
          _masters_num |-> _masters_num(FontMasters),
          _master_id_indices |-> _master_id_indices(FontMasters),
          interpolations |-> Interpolations(FontMasters, instances),
          glyphs |-> [i \in 1..Len(MathGlyphOrder) |->
                        MathGlyph(MathGlyphOrder[i], sorted,
                            CASE MathGlyphOrder[i] = "a" ->
                                    [NoneMissing EXCEPT !["italicCorrection"] = missIC]
                              [] MathGlyphOrder[i] = "p" ->
                                    [NoneMissing EXCEPT !["startConnector"] = missSC]
                              [] OTHER -> NoneMissing)],
          instances |-> instances ]

\* instance.instanceInterpolations: master id -> weight, a fraction
InterpolationChoices ==
    LET sorted == SortedMasters(FontMasters)
        first == sorted[1].id
        last == sorted[Len(sorted)].id
    IN  { << <<first, <<1, 1>>>> >>,
          << <<first, <<1, 2>>>>, <<last, <<1, 2>>>> >>,
          << <<first, <<1, 2>>>> >>,
          << <<last, <<3, 4>>>>, <<first, <<1, 4>>>> >> }

\* customParameters['Remove Glyphs']: absent (None, kept as <<>>) or a list
RemoveChoices == { <<>>, <<"a">> }

InstanceChoices(name) ==
    { [name |-> name, active |-> TRUE, instanceInterpolations |-> v, removeGlyphs |-> r] :
        v \in InterpolationChoices, r \in RemoveChoices }

\* a per-master list of the configuration: base + step * master index
MasterList(base, step) == [i \in 1..NumMasters |-> base + step * (i - 1)]

\* the configuration file
TomlData ==
    [ MathConstants |->
        << <<"ScriptPercentScaleDown", [value |-> MasterList(80, 1), isMathValue |-> FALSE]>>,
           <<"AxisHeight", [value |-> MasterList(100, 100), isMathValue |-> TRUE]>> >>,
      MathGlyphInfo |->
        [ ItalicCorrection |-> << <<"b", MasterList(7, 1)>> >>,
          TopAccent |-> <<>>,
          ExtendedShapes |-> <<"b", "a">> ],
      MathVariants |->
        [ MinConnectorOverlap |-> MasterList(20, 5),
          HorizontalVariants |-> << <<"b", [suffixes |-> <<".s1">>]>>,
                                    <<"a", [suffixes |-> <<".s1">>]>> >>,
          VerticalVariants |-> << <<"a", [suffixes |-> <<".s1">>]>> >>,
          HorizontalComponents |->
            << <<"a", [italicsCorrection |-> 0,
                       parts |-> << [name |-> "p", isExtender |-> TRUE],
                                    [name |-> "q", isExtender |-> FALSE] >>]>> >>,
          VerticalComponents |->
            << <<"b", [italicsCorrection |-> 3,
                       parts |-> << [name |-> "q", isExtender |-> FALSE],
                                    [name |-> "p", isExtender |-> TRUE],
                                    [name |-> "q", isExtender |-> FALSE] >>]>> >> ] ]

(***************************************************************************)
(* Font: the per-master data of the MATH table                             *)
(***************************************************************************)
\* self.font.glyphs[name]
FontGlyph(font, name) ==
    font.glyphs[CHOOSE i \in 1..Len(font.glyphs) : font.glyphs[i].name = name]

_master_layers(font, layers) ==
    LET masters == SelectSeq(layers, LAMBDA l : l.associatedMasterId = l.layerId)
    IN  SortedBy(masters, [i \in 1..Len(masters) |->
                    font._master_id_indices[masters[i].associatedMasterId]])

\* next(d for d in layer.userData if name in d), over the master layers: the
\* layers without such an entry add nothing
_get_user_data(font, glyph, name) ==
    LET layers == _master_layers(font, glyph.layers)
        has == SelectSeq(layers, LAMBDA l : \E n \in 1..Len(l.userData) : HasKey(l.userData[n], name))
        first(l) == l.userData[CHOOSE n \in 1..Len(l.userData) :
                        /\ HasKey(l.userData[n], name)
                        /\ \A o \in 1..(n - 1) : ~HasKey(l.userData[o], name)]
    IN  [i \in 1..Len(has) |-> Lookup(first(has[i]), name)]

\* name[0].lower() + name[1:]
Uncapitalize(name) ==
    CASE name = "ItalicCorrection" -> "italicCorrection"
      [] name = "TopAccent" -> "topAccent"
      [] name = "ExtendedShapes" -> "extendedShapes"

_get_all_user_data(font, name) ==
    LET exported == SelectSeq(font.glyphs, LAMBDA g : g.export)
        values == [i \in 1..Len(exported) |->
                    <<exported[i].name, _get_user_data(font, exported[i], Uncapitalize(name))>>]
    IN  SelectSeq(values, LAMBDA e : e[2] # <<>>)

Abs(x) == IF x < 0 THEN 0 - x ELSE x

\* _advances without the plus_1 branch
AdvancesUnpadded(font, glyph, direction, plus_1) ==
    LET layers == _master_layers(font, FontGlyph(font, glyph).layers)
        advance(l) == IF direction = "H" THEN l.size.width ELSE l.size.height
    IN  [i \in 1..Len(layers) |-> Abs(Round(advance(layers[i])[1], advance(layers[i])[2]))]

_advances(font, glyph, direction, plus_1) ==
    LET layers == _master_layers(font, FontGlyph(font, glyph).layers)
        advance(l) == IF direction = "H" THEN l.size.width ELSE l.size.height
        result == [i \in 1..Len(layers) |-> Abs(Round(advance(layers[i])[1], advance(layers[i])[2]))]
    IN  IF plus_1 THEN [i \in 1..Len(result) |-> result[i] + 1] ELSE result

_variant_part(font, glyph, direction) ==
    [ startConnector |-> _get_user_data(font, FontGlyph(font, glyph), "startConnector"),
      endConnector |-> _get_user_data(font, FontGlyph(font, glyph), "endConnector"),
      fullAdvance |-> _advances(font, glyph, direction, FALSE) ]

\* the loop of _parse_master_math_table over the glyphs with user data `name`:
\* an incomplete list is replaced by copies of its first value
RECURSIVE FillGlyphInfo(_, _, _, _)
FillGlyphInfo(font, info, found, i) ==
    IF i > Len(found) THEN info
    ELSE LET values == found[i][2]
             filled == IF Len(values) # font._masters_num
                       THEN [m \in 1..font._masters_num |-> values[1]]
                       ELSE values
         IN  FillGlyphInfo(font, DictPut(info, found[i][1], filled), found, i + 1)

\* the glyphs the loop above warned about
Warnings(font, name) ==
    {e[1] : e \in {x \in SeqToSet(_get_all_user_data(font, name)) : Len(x[2]) # font._masters_num}}

\* variants[name][glyph] = {var: self._advances(var, direction, plus_1=True) ...}
MasterVariants(font, d, direction) ==
    [i \in 1..Len(d) |->
        << d[i][1],
           [n \in 1..Len(d[i][2].suffixes) |->
                << d[i][1] \o d[i][2].suffixes[n],
                   _advances(font, d[i][1] \o d[i][2].suffixes[n], direction, TRUE) >>] >>]

\* variants[name][glyph]['parts'] = [part | self._variant_part(part['name'], direction) ...]
MasterComponents(font, d, direction) ==
    [i \in 1..Len(d) |->
        << d[i][1],
           [ italicsCorrection |-> d[i][2].italicsCorrection,
             parts |-> [n \in 1..Len(d[i][2].parts) |->
                LET part == d[i][2].parts[n]
                    vp == _variant_part(font, part.name, direction)
                IN  [ name |-> part.name, isExtender |-> part.isExtender,
                      startConnector |-> vp.startConnector,
                      endConnector |-> vp.endConnector,
                      fullAdvance |-> vp.fullAdvance ]] ] >>]

_parse_master_math_table(font, data) ==
    [ MathConstants |-> data.MathConstants,
      MathGlyphInfo |->
        [ ItalicCorrection |-> FillGlyphInfo(font, data.MathGlyphInfo.ItalicCorrection,
                                    _get_all_user_data(font, "ItalicCorrection"), 1),
          TopAccent |-> FillGlyphInfo(font, data.MathGlyphInfo.TopAccent,
                                    _get_all_user_data(font, "TopAccent"), 1),
          ExtendedShapes |-> data.MathGlyphInfo.ExtendedShapes ],
      MathVariants |->
        [ MinConnectorOverlap |-> data.MathVariants.MinConnectorOverlap,
          HorizontalVariants |-> MasterVariants(font, data.MathVariants.HorizontalVariants, "H"),
          VerticalVariants |-> MasterVariants(font, data.MathVariants.VerticalVariants, "V"),
          HorizontalComponents |-> MasterComponents(font, data.MathVariants.HorizontalComponents, "H"),
          VerticalComponents |-> MasterComponents(font, data.MathVariants.VerticalComponents, "V") ] ]

(***************************************************************************)
(* Font._parse_math_table: the MathTable of one style                      *)
(***************************************************************************)
\* sum(values[i] * v for i, v in interpolation), from entry e on, as a fraction
RECURSIVE WeightedSum(_, _, _)
WeightedSum(values, interpolation, e) ==
    IF e > Len(interpolation) THEN <<0, 1>>
    ELSE LET rest == WeightedSum(values, interpolation, e + 1)
             v == values[interpolation[e][1] + 1]
             w == interpolation[e][2]
         IN  <<w[1] * v * rest[2] + rest[1] * w[2], w[2] * rest[2]>>

\* values[i] raises IndexError for an index the list does not have
GenerateRaises(values, interpolation) ==
    \E e \in 1..Len(interpolation) : interpolation[e][1] + 1 > Len(values)

\* _generate with int() in the place of round()
GenerateTruncated(values, interpolation) ==
    WeightedSum(values, interpolation, 1)[1] \div WeightedSum(values, interpolation, 1)[2]

_generate(values, interpolation) ==
    Round(WeightedSum(values, interpolation, 1)[1], WeightedSum(values, interpolation, 1)[2])

\* _is_removed_glyph that never finds a glyph removed
NeverRemoved(remove_glyphs, glyph) == FALSE

_is_removed_glyph(remove_glyphs, glyph) ==
    IF remove_glyphs # <<>> THEN glyph \in SeqToSet(remove_glyphs) ELSE FALSE

_variant(master_variants, interpolation) ==
    [i \in 1..Len(master_variants) |->
        << master_variants[i][1],
           [n \in 1..Len(master_variants[i][2]) |->
                << master_variants[i][2][n][1],
                   _generate(master_variants[i][2][n][2], interpolation) >>] >>]

_componet(master_components, interpolation) ==
    [i \in 1..Len(master_components) |->
        << master_components[i][1],
           [ italicsCorrection |-> master_components[i][2].italicsCorrection,
             parts |-> [n \in 1..Len(master_components[i][2].parts) |->
                LET part == master_components[i][2].parts[n]
                IN  [ name |-> part.name, isExtender |-> part.isExtender,
                      startConnector |-> _generate(part.startConnector, interpolation),
                      endConnector |-> _generate(part.endConnector, interpolation),
                      fullAdvance |-> _generate(part.fullAdvance, interpolation) ]] ] >>]

\* the glyph-info map of a style: the glyphs that are not removed
StyleGlyphInfo(info, remove_glyphs, interpolation) ==
    LET kept == SelectSeq(info, LAMBDA e : ~_is_removed_glyph(remove_glyphs, e[1]))
    IN  [i \in 1..Len(kept) |-> <<kept[i][1], _generate(kept[i][2], interpolation)>>]

\* every per-master list the body of the loop over the styles hands to _generate
GeneratedLists(data, remove_glyphs) ==
    LET dictLists(d) == {d[i][2] : i \in 1..Len(d)}
        keptLists(d) == {d[i][2] : i \in {j \in 1..Len(d) : ~_is_removed_glyph(remove_glyphs, d[j][1])}}
        variantLists(d) == UNION {dictLists(d[i][2]) : i \in 1..Len(d)}
        partLists(d) == UNION { UNION { { d[i][2].parts[n].startConnector,
                                           d[i][2].parts[n].endConnector,
                                           d[i][2].parts[n].fullAdvance } :
                                         n \in 1..Len(d[i][2].parts) } : i \in 1..Len(d) }
    IN  {data.MathConstants[i][2].value : i \in 1..Len(data.MathConstants)}
        \cup keptLists(data.MathGlyphInfo.ItalicCorrection)
        \cup keptLists(data.MathGlyphInfo.TopAccent)
        \cup {data.MathVariants.MinConnectorOverlap}
        \cup variantLists(data.MathVariants.HorizontalVariants)
        \cup variantLists(data.MathVariants.VerticalVariants)
        \cup partLists(data.MathVariants.HorizontalComponents)
        \cup partLists(data.MathVariants.VerticalComponents)

\* the body of the loop over the styles raises
StyleRaises(data, remove_glyphs, interpolation) ==
    \E values \in GeneratedLists(data, remove_glyphs) : GenerateRaises(values, interpolation)

\* next(i for i in self.font.instances if i.name == style)
StyleInstance(font, style) ==
    font.instances[CHOOSE i \in 1..Len(font.instances) :
                        /\ font.instances[i].name = style
                        /\ \A j \in 1..(i - 1) : font.instances[j].name # style]

\* the MathTable the loop builds for a style
StyleTable(data, remove_glyphs, interpolation) ==
    [ constants |->
        [i \in 1..Len(data.MathConstants) |->
            << data.MathConstants[i][1],
               [ value |-> _generate(data.MathConstants[i][2].value, interpolation),
                 isMathValue |-> data.MathConstants[i][2].isMathValue ] >>],
      glyph_info |->
        [ ItalicCorrection |->
            StyleGlyphInfo(data.MathGlyphInfo.ItalicCorrection, remove_glyphs, interpolation),
          TopAccent |->
            StyleGlyphInfo(data.MathGlyphInfo.TopAccent, remove_glyphs, interpolation),
          ExtendedShapes |-> data.MathGlyphInfo.ExtendedShapes ],
      variants |->
        [ MinConnectorOverlap |-> _generate(data.MathVariants.MinConnectorOverlap, interpolation),
          HorizontalVariants |-> _variant(data.MathVariants.HorizontalVariants, interpolation),
          VerticalVariants |-> _variant(data.MathVariants.VerticalVariants, interpolation),
          HorizontalComponents |-> _componet(data.MathVariants.HorizontalComponents, interpolation),
          VerticalComponents |-> _componet(data.MathVariants.VerticalComponents, interpolation) ] ]

(***************************************************************************)
(* MathTable.encode                                                        *)
(***************************************************************************)
\* table.Version
Version == 65536
\* r.PartFlags of an extender and of a part that is none
ExtenderFlags == 1
FixedFlags == 65534

_math_value(value) == [DeviceTable |-> "None", Value |-> value]

_coverage(covered) == [glyphs |-> covered]

_encode_constants(mt) ==
    [i \in 1..Len(mt.constants) |->
        << mt.constants[i][1],
           IF mt.constants[i][2].isMathValue
           THEN <<_math_value(mt.constants[i][2].value)>>
           ELSE mt.constants[i][2].value >>]

_glyph_info(info) ==
    << [i \in 1..Len(info) |-> _math_value(info[i][2])],
       _coverage(DictKeys(info)),
       Len(info) >>

_encode_glyph_info(mt) ==
    [ MathItalicsCorrectionInfo |->
        [ ItalicsCorrection |-> _glyph_info(mt.glyph_info.ItalicCorrection)[1],
          Coverage |-> _glyph_info(mt.glyph_info.ItalicCorrection)[2],
          ItalicsCorrectionCount |-> _glyph_info(mt.glyph_info.ItalicCorrection)[3] ],
      MathTopAccentAttachment |->
        [ TopAccentAttachment |-> _glyph_info(mt.glyph_info.TopAccent)[1],
          TopAccentCoverage |-> _glyph_info(mt.glyph_info.TopAccent)[2],
          TopAccentAttachmentCount |-> _glyph_info(mt.glyph_info.TopAccent)[3] ],
      ExtendedShapeCoverage |-> _coverage(mt.glyph_info.ExtendedShapes),
      MathKernInfo |-> "None" ]

\* GlyphAssembly is None (<<>>) or one assembly (<<assembly>>)
_glyph_construction(variants) ==
    [ GlyphAssembly |-> <<>>,
      VariantCount |-> Len(variants),
      MathGlyphVariantRecord |->
        [n \in 1..Len(variants) |->
            [VariantGlyph |-> variants[n][1], AdvanceMeasurement |-> variants[n][2]]] ]

\* _glyph_assembly with 0 for a part that is no extender
AssemblyZeroFlags(component) ==
    [ ItalicsCorrection |-> _math_value(component.italicsCorrection),
      PartCount |-> Len(component.parts),
      PartRecords |->
        [n \in 1..Len(component.parts) |->
            [ glyph |-> component.parts[n].name,
              StartConnectorLength |-> component.parts[n].startConnector,
              EndConnectorLength |-> component.parts[n].endConnector,
              FullAdvance |-> component.parts[n].fullAdvance,
              PartFlags |-> IF component.parts[n].isExtender THEN ExtenderFlags ELSE 0 ]] ]

_glyph_assembly(component) ==
    [ ItalicsCorrection |-> _math_value(component.italicsCorrection),
      PartCount |-> Len(component.parts),
      PartRecords |->
        [n \in 1..Len(component.parts) |->
            [ glyph |-> component.parts[n].name,
              StartConnectorLength |-> component.parts[n].startConnector,
              EndConnectorLength |-> component.parts[n].endConnector,
              FullAdvance |-> component.parts[n].fullAdvance,
              PartFlags |-> IF component.parts[n].isExtender THEN ExtenderFlags ELSE FixedFlags ]] ]

\* the second loop of _variants without `if glyph not in constructions`: every
\* glyph of the components gets a new construction
RECURSIVE AssembliesOverwrite(_, _, _)
AssembliesOverwrite(constructions, components, i) ==
    IF i > Len(components) THEN constructions
    ELSE AssembliesOverwrite(
            DictPut(constructions, components[i][1],
                    [_glyph_construction(<<>>) EXCEPT
                        !.GlyphAssembly = <<_glyph_assembly(components[i][2])>>]),
            components, i + 1)

\* the second loop of _variants, from entry i of the components on
RECURSIVE AddAssemblies(_, _, _)
AddAssemblies(constructions, components, i) ==
    IF i > Len(components) THEN constructions
    ELSE LET glyph == components[i][1]
             base == IF HasKey(constructions, glyph)
                     THEN Lookup(constructions, glyph)
                     ELSE _glyph_construction(<<>>)
         IN  AddAssemblies(
                DictPut(constructions, glyph,
                        [base EXCEPT !.GlyphAssembly = <<_glyph_assembly(components[i][2])>>]),
                components, i + 1)

\* the first loop of _variants, from entry i of the variant lists on
RECURSIVE AddVariants(_, _, _)
AddVariants(constructions, variants, i) ==
    IF i > Len(variants) THEN constructions
    ELSE AddVariants(DictPut(constructions, variants[i][1], _glyph_construction(variants[i][2])),
                     variants, i + 1)

_variants(variants, components) ==
    LET constructions == AddAssemblies(AddVariants(<<>>, variants, 1), components, 1)
    IN  <<DictValues(constructions), _coverage(DictKeys(constructions)), Len(constructions)>>

_encode_variants(mt) ==
    LET h == _variants(mt.variants.HorizontalVariants, mt.variants.HorizontalComponents)
        v == _variants(mt.variants.VerticalVariants, mt.variants.VerticalComponents)
    IN  [ MinConnectorOverlap |-> mt.variants.MinConnectorOverlap,
          HorizGlyphConstruction |-> h[1], HorizGlyphCoverage |-> h[2], HorizGlyphCount |-> h[3],
          VertGlyphConstruction |-> v[1], VertGlyphCoverage |-> v[2], VertGlyphCount |-> v[3] ]

encode(mt) ==
    [ Version |-> Version,
      MathConstants |-> _encode_constants(mt),
      MathGlyphInfo |-> _encode_glyph_info(mt),
      MathVariants |-> _encode_variants(mt) ]

(***************************************************************************)
(* Font.add_math_table                                                     *)
(***************************************************************************)
StyleNames == <<"Regular", "Bold">>

InitMath ==
    /\ \E missIC \in SUBSET (0..(NumMasters - 1)), missSC \in SUBSET (0..(NumMasters - 1)),
          i1 \in InstanceChoices(StyleNames[1]), i2 \in InstanceChoices(StyleNames[2]) :
            mfont = MathFont(missIC, missSC,
                        << i1,
                           [name |-> "Draft", active |-> FALSE,
                            instanceInterpolations |-> <<>>, removeGlyphs |-> <<>>],
                           i2 >>)
    /\ toml = TomlData
    /\ unsavable \in SUBSET SeqToSet(StyleNames)
    /\ master_data = <<>>
    /\ math_tables = <<>>
    /\ outputs = <<>>
    /\ mpc = "start"
    /\ si = 1
    /\ glyphs = <<>> /\ source = <<>> /\ pass = 0 /\ gi = 0 /\ li = 0 /\ status = "off"
    /\ model = <<>> /\ encoded = <<>>

\* master_data = self._parse_master_math_table(toml_path)
ParseMasterTable ==
    /\ mpc = "start"
    /\ master_data' = _parse_master_math_table(mfont, toml)
    /\ mpc' = "build"
    /\ UNCHANGED <<mfont, toml, unsavable, math_tables, outputs, si, decompVars, encodeVars>>

\* one turn of `for style, interpolation in self.interpolations.items()` of
\* _parse_math_table; an exception leaves add_math_table
BuildStyle ==
    /\ mpc = "build"
    /\ si <= Len(mfont.interpolations)
    /\ LET style == mfont.interpolations[si][1]
           interpolation == mfont.interpolations[si][2]
           remove_glyphs == StyleInstance(mfont, style).removeGlyphs
       IN  IF StyleRaises(master_data, remove_glyphs, interpolation)
           THEN mpc' = "error" /\ UNCHANGED <<math_tables, si>>
           ELSE /\ math_tables' = DictPut(math_tables, style,
                                          StyleTable(master_data, remove_glyphs, interpolation))
                /\ si' = si + 1
                /\ mpc' = mpc
    /\ UNCHANGED <<mfont, toml, unsavable, master_data, outputs, decompVars, encodeVars>>

\* _parse_math_table returns: the loop of add_math_table over the styles starts
EndBuild ==
    /\ mpc = "build"
    /\ si > Len(mfont.interpolations)
    /\ mpc' = "write"
    /\ si' = 1
    /\ UNCHANGED <<mfont, toml, unsavable, master_data, math_tables, outputs, decompVars, encodeVars>>

\* one turn of `for style in self.interpolations` of add_math_table: the table
\* is encoded and saved in the font of the style, unless TTFont raises
WriteStyle ==
    /\ mpc = "write"
    /\ si <= Len(mfont.interpolations)
    /\ LET style == mfont.interpolations[si][1]
       IN  IF style \in unsavable
           THEN mpc' = "error" /\ UNCHANGED <<outputs, si>>
           ELSE /\ outputs' = DictPut(outputs, style, encode(Lookup(math_tables, style)))
                /\ si' = si + 1
                /\ mpc' = mpc
    /\ UNCHANGED <<mfont, toml, unsavable, master_data, math_tables, decompVars, encodeVars>>

\* add_math_table returns
EndWrite ==
    /\ mpc = "write"
    /\ si > Len(mfont.interpolations)
    /\ mpc' = "done"
    /\ UNCHANGED <<mfont, toml, unsavable, master_data, math_tables, outputs, si, decompVars, encodeVars>>

NextMath == ParseMasterTable \/ BuildStyle \/ EndBuild \/ WriteStyle \/ EndWrite

SpecMath == InitMath /\ [][NextMath]_vars

(***************************************************************************)
(* Claims about Font._parse_master_math_table and Font._parse_math_table   *)
(***************************************************************************)
\* v is the integer nearest to the fraction f, the even one of two nearest
IsRounded(v, f) ==
    /\ 2 * Abs(v * f[2] - f[1]) <= f[2]
    /\ 2 * Abs(v * f[2] - f[1]) = f[2] => v % 2 = 0

\* the styles whose MathTable is built, the interpolation vector of a style
BuiltStyles == KeySet(math_tables)
VectorOf(style) == Lookup(mfont.interpolations, style)

\* every value of a dict of values is the rounded weighted sum of the list the
\* dict of per-master lists holds for the same key
RoundedDict(d, lists, interpolation) ==
    \A i \in 1..Len(d) :
        IsRounded(d[i][2], WeightedSum(Lookup(lists, d[i][1]), interpolation, 1))

RoundedParts(d, masters, interpolation) ==
    \A i \in 1..Len(d) : \A n \in 1..Len(d[i][2].parts) :
        LET part == d[i][2].parts[n]
            lists == Lookup(masters, d[i][1]).parts[n]
        IN  /\ IsRounded(part.startConnector, WeightedSum(lists.startConnector, interpolation, 1))
            /\ IsRounded(part.endConnector, WeightedSum(lists.endConnector, interpolation, 1))
            /\ IsRounded(part.fullAdvance, WeightedSum(lists.fullAdvance, interpolation, 1))

HalfAndHalf == << <<0, <<1, 2>>>>, <<1, <<1, 2>>>> >>

\* C2: every interpolated metric of the MathTable of a style is the weighted sum
\* of its per-master values over the interpolation vector of the style, rounded
\* to the nearest integer (a tie to the even one); with the vector
\* [(0, 0.5), (1, 0.5)] and the master values [100, 200] it is 150.
C2_WeightedSumRounded ==
    \A style \in BuiltStyles :
        LET mt == Lookup(math_tables, style)
            v == VectorOf(style)
            mv == master_data.MathVariants
        IN  /\ \A i \in 1..Len(mt.constants) :
                    IsRounded(mt.constants[i][2].value,
                              WeightedSum(Lookup(master_data.MathConstants, mt.constants[i][1]).value, v, 1))
            /\ RoundedDict(mt.glyph_info.ItalicCorrection, master_data.MathGlyphInfo.ItalicCorrection, v)
            /\ RoundedDict(mt.glyph_info.TopAccent, master_data.MathGlyphInfo.TopAccent, v)
            /\ IsRounded(mt.variants.MinConnectorOverlap, WeightedSum(mv.MinConnectorOverlap, v, 1))
            /\ \A i \in 1..Len(mt.variants.HorizontalVariants) :
                    RoundedDict(mt.variants.HorizontalVariants[i][2],
                                Lookup(mv.HorizontalVariants, mt.variants.HorizontalVariants[i][1]), v)
            /\ \A i \in 1..Len(mt.variants.VerticalVariants) :
                    RoundedDict(mt.variants.VerticalVariants[i][2],
                                Lookup(mv.VerticalVariants, mt.variants.VerticalVariants[i][1]), v)
            /\ RoundedParts(mt.variants.HorizontalComponents, mv.HorizontalComponents, v)
            /\ RoundedParts(mt.variants.VerticalComponents, mv.VerticalComponents, v)
            /\ (v = HalfAndHalf /\ Lookup(master_data.MathConstants, "AxisHeight").value = <<100, 200>>)
                    => Lookup(mt.constants, "AxisHeight").value = 150

\* a style with the vector [(0, 0.5), (1, 0.5)] is built from the master values
\* [100, 200] of AxisHeight and from a MinConnectorOverlap whose sum is a tie
C2_Witness ==
    \E style \in BuiltStyles :
        /\ VectorOf(style) = HalfAndHalf
        /\ Lookup(master_data.MathConstants, "AxisHeight").value = <<100, 200>>
        /\ Lookup(Lookup(math_tables, style).constants, "AxisHeight").value = 150
        /\ WeightedSum(master_data.MathVariants.MinConnectorOverlap, VectorOf(style), 1) = <<90, 4>>
        /\ Lookup(math_tables, style).variants.MinConnectorOverlap = 22

\* the styles of the font, and whether the work on one style raises: its MathTable
\* cannot be built, or its font cannot be opened or saved
AllStyles == KeySet(mfont.interpolations)
StyleFails(style) ==
    \/ StyleRaises(master_data, StyleInstance(mfont, style).removeGlyphs, VectorOf(style))
    \/ style \in unsavable

\* C3: when an error ended add_math_table, the table of every style whose own
\* work raises no error has been built, encoded and saved.
C3_OtherStylesWritten ==
    mpc = "error" => \A style \in AllStyles : ~StyleFails(style) => HasKey(outputs, style)

\* _advances(glyph, direction): abs(round(width or height)) per master
RawAdvances(glyph, direction) == _advances(mfont, glyph, direction, FALSE)

\* every AdvanceMeasurement of the constructions of one direction satisfies P
AdvancesSatisfy(constructions, direction, interpolation, P(_, _, _)) ==
    \A i \in 1..Len(constructions) :
        \A n \in 1..Len(constructions[i].MathGlyphVariantRecord) :
            LET r == constructions[i].MathGlyphVariantRecord[n]
            IN  P(r.AdvanceMeasurement, RawAdvances(r.VariantGlyph, direction), interpolation)

\* C5, as stated: the encoded AdvanceMeasurement of a variant is the rounded
\* weighted sum of the raw per-master advances, plus 1.
C5_RoundThenPad ==
    \A s \in 1..Len(outputs) :
        LET padded(a, raw, v) == a = Round(WeightedSum(raw, v, 1)[1], WeightedSum(raw, v, 1)[2]) + 1
        IN  /\ AdvancesSatisfy(outputs[s][2].MathVariants.HorizGlyphConstruction, "H",
                               VectorOf(outputs[s][1]), padded)
            /\ AdvancesSatisfy(outputs[s][2].MathVariants.VertGlyphConstruction, "V",
                               VectorOf(outputs[s][1]), padded)

\* C5, amended: the encoded AdvanceMeasurement of a variant is the rounded
\* weighted sum of the per-master advances each raised by 1.
C5_PadThenRound ==
    \A s \in 1..Len(outputs) :
        LET padded(a, raw, v) ==
                IsRounded(a, WeightedSum([i \in 1..Len(raw) |-> raw[i] + 1], v, 1))
        IN  /\ AdvancesSatisfy(outputs[s][2].MathVariants.HorizGlyphConstruction, "H",
                               VectorOf(outputs[s][1]), padded)
            /\ AdvancesSatisfy(outputs[s][2].MathVariants.VertGlyphConstruction, "V",
                               VectorOf(outputs[s][1]), padded)

\* the table of a style whose weights do not sum to 1 is saved with a variant
\* whose advance is not the rounded raw advance plus 1
C5_Witness ==
    \E s \in 1..Len(outputs) :
        /\ VectorOf(outputs[s][1]) = << <<0, <<1, 2>>>> >>
        /\ \E i \in 1..Len(outputs[s][2].MathVariants.HorizGlyphConstruction) :
            LET c == outputs[s][2].MathVariants.HorizGlyphConstruction[i]
            IN  /\ c.VariantCount > 0
                /\ c.MathGlyphVariantRecord[1].AdvanceMeasurement #
                    Round(RawAdvances(c.MathGlyphVariantRecord[1].VariantGlyph, "H")[1], 2) + 1

\* C6: every per-master list _parse_master_math_table returned (italic
\* correction, top accent, the connectors and the advance of the parts, the
\* advances of the variants) has as many values as the font has masters.
C6_ListsOfMasterCount ==
    mpc # "start" =>
        \A values \in GeneratedLists(master_data, <<>>) : Len(values) = mfont._masters_num

\* the Remove Glyphs of the instance of a style
RemovedOf(style) == SeqToSet(StyleInstance(mfont, style).removeGlyphs)

\* C8: a glyph in the Remove Glyphs of a style is in neither glyph-info map of
\* the style, every other glyph with master data is in them, and ExtendedShapes,
\* the variant lists and the component data are what they are with no glyph
\* removed.
C8_RemoveGlyphsOnlyGlyphInfo ==
    \A style \in BuiltStyles :
        LET mt == Lookup(math_tables, style)
            unremoved == StyleTable(master_data, <<>>, VectorOf(style))
        IN  /\ KeySet(mt.glyph_info.ItalicCorrection) =
                    KeySet(master_data.MathGlyphInfo.ItalicCorrection) \ RemovedOf(style)
            /\ KeySet(mt.glyph_info.TopAccent) =
                    KeySet(master_data.MathGlyphInfo.TopAccent) \ RemovedOf(style)
            /\ mt.glyph_info.ExtendedShapes = unremoved.glyph_info.ExtendedShapes
            /\ mt.variants = unremoved.variants

\* a style is built that removes glyph "a", which has master data in both
\* glyph-info maps and is in ExtendedShapes, the variants and the components
C8_Witness ==
    \E style \in BuiltStyles :
        /\ "a" \in RemovedOf(style)
        /\ "a" \in KeySet(master_data.MathGlyphInfo.ItalicCorrection)
        /\ "a" \in KeySet(master_data.MathGlyphInfo.TopAccent)
        /\ "a" \in SeqToSet(Lookup(math_tables, style).glyph_info.ExtendedShapes)
        /\ "a" \in KeySet(Lookup(math_tables, style).variants.HorizontalVariants)
        /\ "a" \in KeySet(Lookup(math_tables, style).variants.HorizontalComponents)
        /\ "b" \in KeySet(Lookup(math_tables, style).glyph_info.ItalicCorrection)

(***************************************************************************)
(* MathTable.encode applied to the MathTables of a bounded family          *)
(***************************************************************************)
\* the largest number of glyphs of one glyph-info map
MaxKeys == 2

\* the sequences of at most n distinct elements of S, in every order
DistinctSeqs(S, n) == {q \in SeqsUpTo(S, n) : Cardinality(SeqToSet(q)) = Len(q)}

\* a glyph-info map: its keys in insertion order, each with a value of its own
InfoDict(keys, base) == [i \in 1..Len(keys) |-> <<keys[i], base + GlyphId(keys[i])>>]

\* a variant list per key: glyph -> {variant glyph: advance}
VariantDict(keys, base) ==
    [i \in 1..Len(keys) |->
        << keys[i],
           IF keys[i] = "a"
           THEN << <<"a.s1", base + 1>> >>
           ELSE << <<"b.s1", base + 2>>, <<"q", base + 3>> >> >>]

\* the parts of an assembly: none, an extender, fixed parts around an extender
PartChoices ==
    { <<>>,
      << [name |-> "p", isExtender |-> TRUE, startConnector |-> 5, endConnector |-> 6,
          fullAdvance |-> 50] >>,
      << [name |-> "q", isExtender |-> FALSE, startConnector |-> 0, endConnector |-> 7,
          fullAdvance |-> 40],
         [name |-> "p", isExtender |-> TRUE, startConnector |-> 8, endConnector |-> 9,
          fullAdvance |-> 50],
         [name |-> "q", isExtender |-> FALSE, startConnector |-> 10, endConnector |-> 0,
          fullAdvance |-> 41] >> }

ComponentDict(keys, parts) ==
    [i \in 1..Len(keys) |->
        <<keys[i], [italicsCorrection |-> GlyphId(keys[i]), parts |-> parts]>>]

ModelChoices ==
    { [ constants |-> << <<"RadicalDegreeBottomRaisePercent", [value |-> 60, isMathValue |-> FALSE]>>,
                         <<"AxisHeight", [value |-> 150, isMathValue |-> TRUE]>> >>,
        glyph_info |->
            [ ItalicCorrection |-> InfoDict(ic, 10),
              TopAccent |-> InfoDict(ta, 200),
              ExtendedShapes |-> ta ],
        variants |->
            [ MinConnectorOverlap |-> 22,
              HorizontalVariants |-> VariantDict(hv, 100),
              VerticalVariants |-> VariantDict(vc, 300),
              HorizontalComponents |-> ComponentDict(hc, parts),
              VerticalComponents |-> ComponentDict(vc, parts) ] ] :
        ic \in DistinctSeqs({"a", "b", "p"}, MaxKeys),
        ta \in { <<>>, <<"a", "b">>, <<"b", "a">> },
        hv \in DistinctSeqs({"a", "b"}, 2),
        hc \in DistinctSeqs({"a", "b"}, 2),
        vc \in { <<"b">>, <<"b", "a">> },
        parts \in PartChoices }

InitEncode ==
    /\ model \in ModelChoices
    /\ encoded = <<>>
    /\ mfont = <<>> /\ toml = <<>> /\ unsavable = {} /\ master_data = <<>>
    /\ math_tables = <<>> /\ outputs = <<>> /\ mpc = "off" /\ si = 0
    /\ glyphs = <<>> /\ source = <<>> /\ pass = 0 /\ gi = 0 /\ li = 0 /\ status = "off"

\* table = model.encode()
Encode ==
    /\ encoded = <<>>
    /\ encoded' = <<encode(model)>>
    /\ UNCHANGED <<model, decompVars, mathVars>>

NextEncode == Encode

SpecEncode == InitEncode /\ [][NextEncode]_vars

(***************************************************************************)
(* Claims about MathTable.encode                                           *)
(***************************************************************************)
\* the glyphs of a coverage in the order of their glyph ids
Canonical(covered) ==
    SortedBy(covered, [i \in 1..Len(covered) |-> GlyphId(covered[i])])

\* a coverage and its array of values: the coverage holds the keys of d, array and
\* count are as long as it, and the i-th value is the one d holds for the i-th
\* glyph of the coverage in glyph id order
AlignedValues(array, coverage, count, d) ==
    /\ SeqToSet(coverage.glyphs) = KeySet(d)
    /\ Len(array) = Len(coverage.glyphs)
    /\ count = Len(coverage.glyphs)
    /\ \A i \in 1..Len(array) : array[i].Value = Lookup(d, Canonical(coverage.glyphs)[i])

\* the same for the constructions of one direction: the i-th construction holds
\* the variants and the assembly of the i-th glyph of the coverage
AlignedConstructions(array, coverage, count, variants, components) ==
    /\ SeqToSet(coverage.glyphs) = KeySet(variants) \cup KeySet(components)
    /\ Len(array) = Len(coverage.glyphs)
    /\ count = Len(coverage.glyphs)
    /\ \A i \in 1..Len(array) :
        LET glyph == Canonical(coverage.glyphs)[i]
        IN  /\ [n \in 1..Len(array[i].MathGlyphVariantRecord) |->
                    array[i].MathGlyphVariantRecord[n].VariantGlyph]
                = (IF HasKey(variants, glyph) THEN DictKeys(Lookup(variants, glyph)) ELSE <<>>)
            /\ (array[i].GlyphAssembly # <<>>) = HasKey(components, glyph)
            /\ array[i].GlyphAssembly # <<>> =>
                    array[i].GlyphAssembly[1].ItalicsCorrection.Value =
                        Lookup(components, glyph).italicsCorrection

\* C4: in what encode returns, each coverage holds exactly the keys of the map
\* of the MathTable, array and count are as long as the coverage, and the i-th
\* entry of the array belongs to the i-th glyph of the coverage in glyph id order.
C4_ArraysAlignedWithCoverage ==
    encoded # <<>> =>
        LET t == encoded[1]
            ic == t.MathGlyphInfo.MathItalicsCorrectionInfo
            ta == t.MathGlyphInfo.MathTopAccentAttachment
            mv == t.MathVariants
        IN  /\ AlignedValues(ic.ItalicsCorrection, ic.Coverage, ic.ItalicsCorrectionCount,
                             model.glyph_info.ItalicCorrection)
            /\ AlignedValues(ta.TopAccentAttachment, ta.TopAccentCoverage,
                             ta.TopAccentAttachmentCount, model.glyph_info.TopAccent)
            /\ AlignedConstructions(mv.HorizGlyphConstruction, mv.HorizGlyphCoverage,
                                    mv.HorizGlyphCount, model.variants.HorizontalVariants,
                                    model.variants.HorizontalComponents)
            /\ AlignedConstructions(mv.VertGlyphConstruction, mv.VertGlyphCoverage,
                                    mv.VertGlyphCount, model.variants.VerticalVariants,
                                    model.variants.VerticalComponents)

\* the assembly encode built for a glyph of one direction
AssemblyOf(array, coverage, glyph) ==
    array[CHOOSE i \in 1..Len(coverage.glyphs) : coverage.glyphs[i] = glyph].GlyphAssembly

\* the assemblies of one direction: one per component, the parts in their order
\* with their fields, the flags 0x0001 for an extender and 0xFFFE otherwise
AssembliesCopied(array, coverage, components) ==
    \A i \in 1..Len(components) :
        LET parts == components[i][2].parts
            assembly == AssemblyOf(array, coverage, components[i][1])
        IN  /\ Len(assembly) = 1
            /\ assembly[1].PartCount = Len(parts)
            /\ Len(assembly[1].PartRecords) = Len(parts)
            /\ \A n \in 1..Len(parts) :
                LET r == assembly[1].PartRecords[n]
                IN  /\ r.glyph = parts[n].name
                    /\ r.StartConnectorLength = parts[n].startConnector
                    /\ r.EndConnectorLength = parts[n].endConnector
                    /\ r.FullAdvance = parts[n].fullAdvance
                    /\ r.PartFlags = (IF parts[n].isExtender THEN 1 ELSE 65534)

\* C9: every encoded assembly has PartCount equal to the number of its parts, the
\* part records in the order of the parts with glyph, connectors and advance
\* unchanged, and PartFlags 0x0001 for an extender and 0xFFFE for any other part.
C9_AssemblyPartsAndFlags ==
    encoded # <<>> =>
        /\ AssembliesCopied(encoded[1].MathVariants.HorizGlyphConstruction,
                            encoded[1].MathVariants.HorizGlyphCoverage,
                            model.variants.HorizontalComponents)
        /\ AssembliesCopied(encoded[1].MathVariants.VertGlyphConstruction,
                            encoded[1].MathVariants.VertGlyphCoverage,
                            model.variants.VerticalComponents)

\* a table is encoded whose horizontal assemblies have an extender between two
\* fixed parts
C9_Witness ==
    /\ encoded # <<>>
    /\ model.variants.HorizontalComponents # <<>>
    /\ Len(model.variants.HorizontalComponents[1][2].parts) = 3
    /\ encoded[1].MathVariants.HorizGlyphCount > 0

\* the construction encode built for a glyph of one direction
ConstructionOf(array, coverage, glyph) ==
    array[CHOOSE i \in 1..Len(coverage.glyphs) : coverage.glyphs[i] = glyph]

\* the constructions of one direction: one per glyph of the union of the keys of
\* variants and components; the variant records of the glyph in their order, or
\* none; the assembly of the glyph, or none
OnePerGlyphOfUnion(array, coverage, count, variants, components) ==
    LET union == KeySet(variants) \cup KeySet(components)
    IN  /\ SeqToSet(coverage.glyphs) = union
        /\ Len(coverage.glyphs) = Cardinality(union)
        /\ Len(array) = Cardinality(union)
        /\ count = Cardinality(union)
        /\ \A glyph \in union :
            LET c == ConstructionOf(array, coverage, glyph)
                records == IF HasKey(variants, glyph) THEN Lookup(variants, glyph) ELSE <<>>
            IN  /\ c.MathGlyphVariantRecord =
                        [n \in 1..Len(records) |->
                            [VariantGlyph |-> records[n][1],
                             AdvanceMeasurement |-> records[n][2]]]
                /\ c.VariantCount = Len(records)
                /\ IF HasKey(components, glyph)
                   THEN /\ Len(c.GlyphAssembly) = 1
                        /\ c.GlyphAssembly[1].ItalicsCorrection.Value =
                                Lookup(components, glyph).italicsCorrection
                        /\ c.GlyphAssembly[1].PartCount =
                                Len(Lookup(components, glyph).parts)
                   ELSE c.GlyphAssembly = <<>>

\* C12: for each direction on its own, _variants builds one construction per
\* glyph of the union of the keys of the variant lists and of the components: a
\* glyph of the variant lists has its (variant glyph, advance) records in order
\* and VariantCount equal to their number, any other glyph has none; a glyph of
\* the components has its assembly, any other glyph has none; the count is the
\* size of the union.
C12_OneConstructionPerGlyph ==
    encoded # <<>> =>
        /\ OnePerGlyphOfUnion(encoded[1].MathVariants.HorizGlyphConstruction,
                              encoded[1].MathVariants.HorizGlyphCoverage,
                              encoded[1].MathVariants.HorizGlyphCount,
                              model.variants.HorizontalVariants,
                              model.variants.HorizontalComponents)
        /\ OnePerGlyphOfUnion(encoded[1].MathVariants.VertGlyphConstruction,
                              encoded[1].MathVariants.VertGlyphCoverage,
                              encoded[1].MathVariants.VertGlyphCount,
                              model.variants.VerticalVariants,
                              model.variants.VerticalComponents)

\* a table is encoded whose horizontal direction has a glyph with variants and an
\* assembly and a glyph with an assembly only, while the vertical direction has
\* other keys
C12_Witness ==
    /\ encoded # <<>>
    /\ \E glyph \in KeySet(model.variants.HorizontalVariants) :
        /\ HasKey(model.variants.HorizontalComponents, glyph)
        /\ Lookup(model.variants.HorizontalVariants, glyph) # <<>>
        /\ Lookup(model.variants.HorizontalComponents, glyph).parts # <<>>
    /\ \E glyph \in KeySet(model.variants.HorizontalComponents) :
        ~HasKey(model.variants.HorizontalVariants, glyph)
    /\ KeySet(model.variants.VerticalVariants) # KeySet(model.variants.HorizontalVariants)
    /\ encoded[1].MathVariants.HorizGlyphCount = 2

====
